---- MODULE Spec2Model ----
(***************************************************************************)
(* Model of create_patch.py: a script that walks a target directory of a   *)
(* git repository and writes, for every file found, the output of          *)
(* `git diff <src> <dst> -- <file>` into a mirrored tree of .patch files.  *)
(*                                                                         *)
(* A path string is a record [abs, comps]: whether it starts with "/" and  *)
(* its components, kept unnormalised the way os.path.join keeps them.  A   *)
(* location of the file system is an absolute, normalised sequence of      *)
(* names.  The file system is the set `dirs` of directories and the        *)
(* function `files` from locations of regular files to their contents.     *)
(***************************************************************************)
EXTENDS Naturals, Sequences, FiniteSets, TLC

VARIABLES
    argc,             \* len(sys.argv)
    repo_path,        \* sys.argv[1]
    target_dir,       \* sys.argv[2]
    output_base_dir,  \* sys.argv[5]
    revsOk,           \* both revisions name commits of the repository
    changed,          \* repository-relative paths whose diff between the revisions is non-empty
    gitOk,            \* the git executable can be launched
    dirs,             \* directories on disk
    files,            \* regular files on disk, with their contents
    pc,               \* position of the process
    run,              \* "first" or "second" invocation of the program
    exitCode,         \* exit status of the process once it has exited
    errors,           \* lines written by error()
    frames,           \* os.walk: directories still to visit, innermost level last
    root,             \* os.walk: directory whose listing is being iterated
    todo,             \* os.walk: names of the listing not yet iterated
    cur,              \* locals of the running create_patch_for_file call
    status,           \* per discovered file: its lifecycle state in this run
    calls,            \* calls made to create_patch_for_file in this run
    spawned,          \* diff subprocesses launched in this run
    effects,          \* directory/file creations, truncations and removals of this run
    firstRun          \* the files on disk when the first run ended

vars == <<argc, repo_path, target_dir, output_base_dir, revsOk, changed, gitOk,
          dirs, files, pc, run, exitCode, errors, frames, root, todo, cur,
          status, calls, spawned, effects, firstRun>>

world == <<argc, repo_path, target_dir, output_base_dir, revsOk, changed, gitOk>>

(***************************************************************************)
(* Bounds of the model.                                                    *)
(***************************************************************************)
MaxFiles == 2       \* at most this many source files exist when the program is first run

(***************************************************************************)
(* Program constant.                                                       *)
(***************************************************************************)
ExpectedArgc == 6   \* len(sys.argv) for five positional arguments

(***************************************************************************)
(* os.path on path strings.                                                *)
(***************************************************************************)
Rel(c) == [abs |-> FALSE, comps |-> c]
Abs(c) == [abs |-> TRUE, comps |-> c]

Cwd == <<"w">>      \* the working directory of the process

Front(s) == SubSeq(s, 1, Len(s) - 1)
Last(s) == s[Len(s)]

IsPrefix(p, q) == Len(p) <= Len(q) /\ SubSeq(q, 1, Len(p)) = p
Under(p, q) == IsPrefix(p, q) /\ p # q      \* q lies strictly below p

NormStep(acc, c) ==
    IF c = "." THEN acc
    ELSE IF c = ".." THEN (IF acc = <<>> THEN acc ELSE Front(acc))
    ELSE Append(acc, c)

RECURSIVE NormFrom(_, _, _)
NormFrom(acc, s, i) ==
    IF i > Len(s) THEN acc ELSE NormFrom(NormStep(acc, s[i]), s, i + 1)

\* os.path.normpath of an absolute path
Norm(s) == NormFrom(<<>>, s, 1)

\* os.path.abspath: the location a path string names for the process
AbsPath(p) == Norm(IF p.abs THEN p.comps ELSE Cwd \o p.comps)

\* os.path.join(a, b)
Join(a, b) == IF b.abs THEN b ELSE [abs |-> a.abs, comps |-> a.comps \o b.comps]

\* os.path.dirname and os.path.basename (textual)
Dirname(p) == [abs |-> p.abs, comps |-> Front(p.comps)]
Basename(p) == Last(p.comps)

RECURSIVE CommonLen(_, _, _)
CommonLen(s, p, i) ==
    IF i < Len(s) /\ i < Len(p) /\ s[i + 1] = p[i + 1]
    THEN CommonLen(s, p, i + 1) ELSE i

RECURSIVE Ups(_)
Ups(n) == IF n = 0 THEN <<>> ELSE <<"..">> \o Ups(n - 1)

\* os.path.relpath(path, start)
RelPath(path, start) ==
    LET s == AbsPath(start)
        p == AbsPath(path)
        i == CommonLen(s, p, 0)
    IN  Rel(Ups(Len(s) - i) \o SubSeq(p, i + 1, Len(p)))

(***************************************************************************)
(* The file system.                                                        *)
(***************************************************************************)
IsDir(p) == AbsPath(p) \in dirs
IsFile(loc) == loc \in DOMAIN files

\* os.makedirs(p, exist_ok=True): every textual prefix of p is created in turn
MakeDirs(p) ==
    { AbsPath([abs |-> p.abs, comps |-> SubSeq(p.comps, 1, k)]) : k \in 0..Len(p.comps) }

WriteFile(fs, loc, content) == (loc :> content) @@ fs
RemoveFile(fs, loc) == [q \in DOMAIN fs \ {loc} |-> fs[q]]

Effect(op, loc) == [op |-> op, loc |-> loc]
MkdirEffects(made) == { Effect("mkdir", d) : d \in made }

\* one level of os.scandir
ChildDirs(loc) == { d \in dirs : Len(d) = Len(loc) + 1 /\ IsPrefix(loc, d) }
ChildFiles(loc) == { f \in DOMAIN files : Len(f) = Len(loc) + 1 /\ IsPrefix(loc, f) }

(***************************************************************************)
(* The world the program is started in.                                    *)
(***************************************************************************)
RepoRoot == <<"w", "repo">>      \* where the git repository lives

RepoPathArgs == { Rel(<<"repo">>), Abs(RepoRoot), Rel(<<"nope">>) }
TargetDirArgs == { Rel(<<"src">>), Rel(<<"..">>), Rel(<<"missing">>) }
OutputBaseArgs == { Rel(<<"out">>), Abs(RepoRoot), Rel(<<"x", "out">>) }
ArgcChoices == { ExpectedArgc - 1, ExpectedArgc }

\* directories that exist before the first run
BaseDirs == { <<>>, Cwd, RepoRoot, RepoRoot \o <<"src">>, RepoRoot \o <<"src", "sub">> }

\* regular files that may exist before the first run
SourceFiles ==
    { RepoRoot \o <<"src", "a.c">>, RepoRoot \o <<"src", "b.c">>,
      RepoRoot \o <<"src", "sub", "c.c">>, Cwd \o <<"notes">> }

\* a path of the history that need not be in the working tree any more
DeletedTracked == <<"src", "a.c.patch">>

\* a file left at an output path by an earlier use of the output directory
StaleLoc(out) == AbsPath(out) \o <<"src", "a.c.patch">>

InRepo(loc) == Under(RepoRoot, loc)
RepoRel(loc) == SubSeq(loc, Len(RepoRoot) + 1, Len(loc))

SourceText == <<"source">>
StaleText == <<"stale">>
DiffText(rel) == <<"diff">> \o rel

EmptyFn == [x \in {} |-> <<>>]

NoCur == [filename |-> Rel(<<>>), patch_filepath |-> Rel(<<>>), rc |-> 0, stderr |-> ""]

InitWorld ==
    /\ argc \in ArgcChoices
    /\ repo_path \in RepoPathArgs
    /\ target_dir \in TargetDirArgs
    /\ output_base_dir \in OutputBaseArgs
    /\ revsOk \in BOOLEAN
    /\ \E tree \in SUBSET SourceFiles, stale \in BOOLEAN :
          /\ Cardinality(tree) <= MaxFiles
          /\ changed \in IF revsOk
                         THEN SUBSET ({ RepoRel(f) : f \in { g \in tree : InRepo(g) } }
                                        \cup {DeletedTracked})
                         ELSE {{}}
          /\ dirs = BaseDirs \cup
                    (IF stale THEN MakeDirs(Abs(Front(StaleLoc(output_base_dir)))) ELSE {})
          /\ files = [f \in tree \cup (IF stale THEN {StaleLoc(output_base_dir)} ELSE {}) |->
                        IF f \in tree THEN SourceText ELSE StaleText]

InitRun ==
    /\ pc = "start"
    /\ run = "first"
    /\ exitCode = 0
    /\ errors = {}
    /\ frames = <<>>
    /\ root = Rel(<<>>)
    /\ todo = {}
    /\ cur = NoCur
    /\ status = EmptyFn
    /\ calls = {}
    /\ spawned = {}
    /\ effects = {}
    /\ firstRun = EmptyFn

Init == InitWorld /\ gitOk = TRUE /\ InitRun

InitOS == InitWorld /\ gitOk \in BOOLEAN /\ InitRun

(***************************************************************************)
(* __main__                                                                *)
(***************************************************************************)
ErrorLine(kind, filename, text) == [kind |-> kind, filename |-> filename, text |-> text]

Exit(code) == pc' = "exited" /\ exitCode' = code

ArgcOk == argc = ExpectedArgc

\* the check of repo_path left out
RepoIsDirUnchecked == TRUE

RepoIsDir == IsDir(repo_path)

\* wrong number of arguments: usage on stderr, sys.exit(1)
UsageError ==
    /\ pc = "start"
    /\ ~ArgcOk
    /\ errors' = errors \cup {ErrorLine("usage", Rel(<<>>), "Usage")}
    /\ Exit(1)
    /\ UNCHANGED <<world, dirs, files, run, frames, root, todo, cur, status, calls,
                   spawned, effects, firstRun>>

\* repo_path is no directory: error on stderr, sys.exit(1)
RepoNotDir ==
    /\ pc = "start"
    /\ ArgcOk
    /\ ~RepoIsDir
    /\ errors' = errors \cup {ErrorLine("repo", repo_path, "not a directory")}
    /\ Exit(1)
    /\ UNCHANGED <<world, dirs, files, run, frames, root, todo, cur, status, calls,
                   spawned, effects, firstRun>>

\* the output base directory is created when missing, then the scan is called
MainSetup ==
    /\ pc = "start"
    /\ ArgcOk
    /\ RepoIsDir
    /\ IF IsDir(output_base_dir)
       THEN UNCHANGED <<dirs, effects>>
       ELSE \E made \in {MakeDirs(output_base_dir) \ dirs} :
            /\ dirs' = dirs \cup made
            /\ effects' = effects \cup MkdirEffects(made)
    /\ pc' = "scan"
    /\ UNCHANGED <<world, files, run, exitCode, errors, frames, root, todo, cur,
                   status, calls, spawned, firstRun>>

(***************************************************************************)
(* scan_and_create_patches                                                 *)
(***************************************************************************)
full_target_dir == Join(repo_path, target_dir)

\* the check of the target directory left out
TargetIsDirUnchecked == TRUE

TargetIsDir == IsDir(full_target_dir)

\* the target is no directory: error on stderr, return; the process ends with status 0
ScanMissingTarget ==
    /\ pc = "scan"
    /\ ~TargetIsDir
    /\ errors' = errors \cup {ErrorLine("target", full_target_dir, "not a directory")}
    /\ Exit(0)
    /\ UNCHANGED <<world, dirs, files, run, frames, root, todo, cur, status, calls,
                   spawned, effects, firstRun>>

\* os.walk(full_target_dir) starts
ScanStart ==
    /\ pc = "scan"
    /\ TargetIsDir
    /\ frames' = << {full_target_dir} >>
    /\ pc' = "walk"
    /\ UNCHANGED <<world, dirs, files, run, exitCode, errors, root, todo, cur, status,
                   calls, spawned, effects, firstRun>>

PushFrame(fs, set) == IF set = {} THEN fs ELSE Append(fs, set)

\* an iteration that does not advance
RestOfListingKeeps(listing, file) == listing

\* the names a listing still has to iterate once `file` has been handed out
RestOfListing(listing, file) == listing \ {file}

\* os.walk lists the next directory: its files are iterated before its subdirectories
\* are entered, and a subdirectory's whole subtree before the next sibling
WalkDir ==
    /\ pc = "walk"
    /\ todo = {}
    /\ frames # <<>>
    /\ \E d \in Last(frames) :
       \E loc \in {AbsPath(d)} :
       \E listed \in {ChildFiles(loc)} :
       \E subs \in {{ Join(d, Rel(<<Last(c)>>)) : c \in ChildDirs(loc) }} :
              /\ frames' = PushFrame(PushFrame(Front(frames), Last(frames) \ {d}), subs)
              /\ root' = d
              /\ todo' = { Last(f) : f \in listed }
              /\ status' = [f \in listed |-> "Discovered"] @@ status
    /\ UNCHANGED <<world, dirs, files, pc, run, exitCode, errors, cur, calls, spawned,
                   effects, firstRun>>

\* the walk is exhausted: scan returns and the process ends with status 0
WalkDone ==
    /\ pc = "walk"
    /\ todo = {}
    /\ frames = <<>>
    /\ Exit(0)
    /\ UNCHANGED <<world, dirs, files, run, errors, frames, root, todo, cur, status,
                   calls, spawned, effects, firstRun>>

(***************************************************************************)
(* The external collaborator: git -C <repo_path> diff <src> <dst> -- <path> *)
(***************************************************************************)
\* the location a pathspec names once git has changed into repo_path
GitResolve(repo, pathspec) ==
    Norm(IF pathspec.abs THEN pathspec.comps ELSE AbsPath(repo) \o pathspec.comps)

\* exit status, standard output and standard error of the diff command
GitDiff(repo, pathspec) ==
    LET loc == GitResolve(repo, pathspec) IN
    IF ~revsOk
    THEN [rc |-> 128, stdout |-> <<>>, stderr |-> "fatal: bad revision"]
    ELSE IF ~Under(AbsPath(repo), loc)
    THEN [rc |-> 128, stdout |-> <<>>, stderr |-> "fatal: outside repository"]
    ELSE LET rel == SubSeq(loc, Len(AbsPath(repo)) + 1, Len(loc)) IN
         IF rel \in changed
         THEN [rc |-> 0, stdout |-> DiffText(rel), stderr |-> ""]
         ELSE [rc |-> 0, stdout |-> <<>>, stderr |-> ""]

(***************************************************************************)
(* create_patch_for_file                                                   *)
(***************************************************************************)
\* the argument scan_and_create_patches passes as `filename`
FilenameArg(dir, file) == Join(dir, Rel(<<file>>))

\* the output base directory left out of the join
OutputSubdirUnrooted(base, relative_path) == Dirname(relative_path)

\* every patch written directly into the output base directory
OutputSubdirFlat(base, relative_path) == base

OutputSubdir(base, relative_path) == Join(base, Dirname(relative_path))

\* the suffix left out
PatchFilenameBare(filename) == Basename(filename)

PatchFilename(filename) == Basename(filename) \o ".patch"

\* open(path, 'a'): the old content is kept
OpenForAppend(old) == old

\* open(path, 'w'): what the file holds once it is open
OpenForWrite(old) == <<>>

\* os.path.getsize(patch_filepath) == 0
IsEmptyPatch(content) == Len(content) = 0

Terminal == {"Deleted", "Kept"}

\* the call, the output path, os.makedirs and open(patch_filepath, 'w')
OpenPatch ==
    /\ pc = "walk"
    /\ todo # {}
    /\ \E file \in todo :
       \E filename \in {FilenameArg(root, file)} :
       \E relative_path \in {RelPath(filename, repo_path)} :
       \E output_subdir \in {OutputSubdir(output_base_dir, relative_path)} :
       \E patch_filepath \in {Join(output_subdir, Rel(<<PatchFilename(filename)>>))} :
       \E loc \in {AbsPath(patch_filepath)} :
       \E made \in {MakeDirs(output_subdir) \ dirs} :
              /\ todo' = RestOfListing(todo, file)
              /\ cur' = [filename |-> filename, patch_filepath |-> patch_filepath,
                         rc |-> 0, stderr |-> ""]
              /\ calls' = calls \cup {[filename |-> filename, file |-> AbsPath(filename),
                                       patch |-> loc]}
              /\ dirs' = dirs \cup made
              /\ files' = WriteFile(files, loc,
                                    IF IsFile(loc) THEN OpenForWrite(files[loc]) ELSE <<>>)
              /\ effects' = effects \cup MkdirEffects(made)
                              \cup {Effect(IF IsFile(loc) THEN "truncate" ELSE "create", loc)}
              /\ status' = (AbsPath(filename) :> "Diffing") @@ status
    /\ pc' = "diffing"
    /\ UNCHANGED <<world, run, exitCode, errors, frames, root, spawned, firstRun>>

\* subprocess.run: the child writes its standard output into the open file; the
\* with-block closes the file; a non-zero status raises CalledProcessError
RunDiff ==
    /\ pc = "diffing"
    /\ gitOk
    /\ \E res \in {GitDiff(repo_path, cur.filename)} :
       \E loc \in {AbsPath(cur.patch_filepath)} :
           /\ files' = WriteFile(files, loc, files[loc] \o res.stdout)
           /\ spawned' = spawned \cup {[repo |-> repo_path, pathspec |-> cur.filename,
                                        rc |-> res.rc, stdout |-> res.stdout,
                                        stderr |-> res.stderr]}
           /\ cur' = [cur EXCEPT !.rc = res.rc, !.stderr = res.stderr]
           /\ status' = (AbsPath(cur.filename) :>
                           (IF res.rc # 0 THEN "Failed"
                            ELSE IF res.stdout = <<>> THEN "Empty" ELSE "NonEmpty")) @@ status
           /\ pc' = IF res.rc # 0 THEN "failed" ELSE "check"
    /\ UNCHANGED <<world, dirs, run, exitCode, errors, frames, root, todo, calls,
                   effects, firstRun>>

\* the executable cannot be launched: subprocess.run raises an OSError, which the
\* except clause does not catch; the with-block closes the file and the process
\* ends with a traceback
LaunchFails ==
    /\ pc = "diffing"
    /\ ~gitOk
    /\ Exit(1)
    /\ UNCHANGED <<world, dirs, files, run, errors, frames, root, todo, cur, status,
                   calls, spawned, effects, firstRun>>

\* the status was 0: an empty patch file is removed, a non-empty one is kept
CheckSize ==
    /\ pc = "check"
    /\ \E loc \in {AbsPath(cur.patch_filepath)} :
       IF IsEmptyPatch(files[loc])
       THEN /\ files' = RemoveFile(files, loc)
            /\ effects' = effects \cup {Effect("remove", loc)}
            /\ status' = (AbsPath(cur.filename) :> "Deleted") @@ status
       ELSE /\ status' = (AbsPath(cur.filename) :> "Kept") @@ status
            /\ UNCHANGED <<files, effects>>
    /\ pc' = "walk"
    /\ cur' = NoCur
    /\ UNCHANGED <<world, dirs, run, exitCode, errors, frames, root, todo, calls,
                   spawned, firstRun>>

\* an except clause that only reports
CleanUpNothing(fs, loc) == fs

\* what the except clause leaves of the file system
CleanUp(fs, loc) == IF loc \in DOMAIN fs THEN RemoveFile(fs, loc) ELSE fs

\* except CalledProcessError: the error text is reported and the file removed
HandleFailure ==
    /\ pc = "failed"
    /\ \E loc \in {AbsPath(cur.patch_filepath)} :
       /\ errors' = errors \cup {ErrorLine("diff", cur.filename, cur.stderr)}
       /\ files' = CleanUp(files, loc)
       /\ effects' = effects \cup (IF IsFile(loc) THEN {Effect("remove", loc)} ELSE {})
       /\ status' = (AbsPath(cur.filename) :> "Deleted") @@ status
    /\ pc' = "walk"
    /\ cur' = NoCur
    /\ UNCHANGED <<world, dirs, run, exitCode, frames, root, todo, calls, spawned,
                   firstRun>>

(***************************************************************************)
(* The program is started a second time with the same arguments.           *)
(***************************************************************************)
Rerun ==
    /\ pc = "exited"
    /\ run = "first"
    /\ run' = "second"
    /\ firstRun' = files
    /\ pc' = "start"
    /\ exitCode' = 0
    /\ errors' = {}
    /\ status' = EmptyFn
    /\ calls' = {}
    /\ spawned' = {}
    /\ effects' = {}
    /\ UNCHANGED <<world, dirs, files, frames, root, todo, cur>>

Next ==
    \/ UsageError
    \/ RepoNotDir
    \/ MainSetup
    \/ ScanMissingTarget
    \/ ScanStart
    \/ WalkDir
    \/ WalkDone
    \/ OpenPatch
    \/ RunDiff
    \/ CheckSize
    \/ HandleFailure
    \/ Rerun

Spec == Init /\ [][Next]_vars

\* the same program where the git executable may be missing
NextOS == Next \/ LaunchFails

SpecOS == InitOS /\ [][NextOS]_vars

\* the scheduling of a sequential process: it takes its next step
FairSpec == Spec /\ WF_vars(Next)

(***************************************************************************)
(* Vocabulary of the properties.                                           *)
(***************************************************************************)
Ended == pc = "exited"
OutLoc == AbsPath(output_base_dir)
TopLoc == AbsPath(Join(repo_path, target_dir))
ArgsValid == argc = 6 /\ AbsPath(repo_path) \in dirs
CallOf(pathspec) == CHOOSE c \in calls : c.filename = pathspec

\* <output_base_dir>/<directory of the file relative to the repository root>/<name>.patch
MirroredLoc(file) == OutLoc \o Front(RepoRel(file)) \o <<Last(file) \o ".patch">>

(***************************************************************************)
(* C1: once a run has ended, a file present at the output path of a        *)
(* handled file is non-empty and is the output of a diff invocation for    *)
(* that file that exited 0; nothing empty or partial is left behind on any *)
(* path through the processing of a file.                                  *)
(***************************************************************************)
C1_OnlyGoodArtifacts ==
    Ended =>
        \A c \in calls :
            IsFile(c.patch) =>
                /\ files[c.patch] # <<>>
                /\ \E s \in spawned :
                      s.pathspec = c.filename /\ s.rc = 0 /\ s.stdout = files[c.patch]

(***************************************************************************)
(* C2: when a run has completed, every file whose diff command exited 0    *)
(* with non-empty output has its artifact, holding exactly that output, at *)
(* <output_base_dir>/<dir relative to the repository root>/<name>.patch,   *)
(* and two different files never share an artifact path.                   *)
(***************************************************************************)
C2_ArtifactPerChangedFile ==
    (Ended /\ exitCode = 0) =>
        /\ \A s \in spawned :
              (s.rc = 0 /\ s.stdout # <<>>) =>
                  LET c == CallOf(s.pathspec) IN
                  /\ IsFile(c.patch)
                  /\ files[c.patch] = s.stdout
                  /\ InRepo(c.file) => c.patch = MirroredLoc(c.file)
        /\ \A c1, c2 \in calls : c1.file # c2.file => c1.patch # c2.patch

C2_Witness ==
    /\ Ended
    /\ Cardinality({ s \in spawned : s.rc = 0 /\ s.stdout # <<>> }) >= 2
    /\ \E s \in spawned : s.rc = 0 /\ s.stdout # <<>> /\ IsFile(MirroredLoc(CallOf(s.pathspec).file))

(***************************************************************************)
(* C3: a diff command that exits non-zero is not fatal: its error text is  *)
(* reported, the file has no artifact when the run has ended, every        *)
(* enumerated file has been processed and the exit status is 0.            *)
(***************************************************************************)
C3_FailureNonFatal ==
    Ended =>
        \A s \in spawned :
            s.rc # 0 =>
                /\ ErrorLine("diff", s.pathspec, s.stderr) \in errors
                /\ ~IsFile(CallOf(s.pathspec).patch)
                /\ \A f \in DOMAIN status : status[f] \in Terminal
                /\ exitCode = 0

C3_Witness ==
    /\ Ended
    /\ \E s1, s2 \in spawned : s1.rc # 0 /\ s2.rc = 0 /\ s2.stdout # <<>>
    /\ Cardinality({ s \in spawned : s.rc # 0 }) >= 2

(***************************************************************************)
(* C4 as stated: whatever the arguments, every creation, truncation and    *)
(* removal of a run is at or below the output base directory (or creates a *)
(* missing ancestor of it) and nothing inside the repository is touched.   *)
(***************************************************************************)
C4_WritesOnlyUnderOutput ==
    \A e \in effects :
        /\ IsPrefix(OutLoc, e.loc) \/ (e.op = "mkdir" /\ IsPrefix(e.loc, OutLoc))
        /\ ~IsPrefix(RepoRoot, e.loc)

(***************************************************************************)
(* C4 amended: when the target directory lies inside the repository, every *)
(* creation, truncation and removal is at or below the output base         *)
(* directory, apart from the missing ancestors of the output base          *)
(* directory that os.makedirs creates; when moreover neither the output    *)
(* base directory nor the repository contains the other, nothing inside    *)
(* the repository is touched.                                              *)
(***************************************************************************)
C4_WritesUnderOutputForInnerTarget ==
    IsPrefix(AbsPath(repo_path), TopLoc) =>
        \A e \in effects :
            /\ IsPrefix(OutLoc, e.loc) \/ (e.op = "mkdir" /\ IsPrefix(e.loc, OutLoc))
            /\ (~IsPrefix(RepoRoot, OutLoc) /\ ~IsPrefix(OutLoc, RepoRoot))
                   => ~IsPrefix(RepoRoot, e.loc)

C4_Witness ==
    /\ Ended
    /\ IsPrefix(AbsPath(repo_path), TopLoc)
    /\ \E e1, e2, e3 \in effects :
          /\ e1.op = "mkdir" /\ Under(e1.loc, OutLoc)
          /\ e2.op = "create" /\ Under(OutLoc, e2.loc)
          /\ e3.op = "remove"

(***************************************************************************)
(* C5: a wrong argument count or a repo_path that is no directory ends the *)
(* process with status 1 and an error line, before any directory or file   *)
(* is created, written or removed and before any diff is launched.         *)
(***************************************************************************)
C5_BadInvocationDoesNothing ==
    (Ended /\ (argc # 6 \/ AbsPath(repo_path) \notin dirs)) =>
        /\ exitCode = 1
        /\ \E e \in errors : e.kind \in {"usage", "repo"}
        /\ effects = {}
        /\ calls = {}
        /\ spawned = {}

C5_Witness ==
    /\ Ended
    /\ argc = 6
    /\ AbsPath(repo_path) \notin dirs
    /\ exitCode = 1

(***************************************************************************)
(* C6: when the target is no directory below repo_path, the scan reports   *)
(* an error, launches no diff, creates no file and the process ends        *)
(* normally with status 0.                                                 *)
(***************************************************************************)
C6_MissingTargetReported ==
    (Ended /\ ArgsValid /\ TopLoc \notin dirs) =>
        /\ \E e \in errors : e.kind = "target"
        /\ calls = {}
        /\ spawned = {}
        /\ \A e \in effects : e.op = "mkdir"
        /\ exitCode = 0

C6_Witness ==
    /\ Ended
    /\ ArgsValid
    /\ TopLoc \notin dirs
    /\ \E e \in errors : e.kind = "target"

(***************************************************************************)
(* C7 as stated: a second run with the same arguments leaves exactly the   *)
(* files, with the contents, that the first run left, wherever the output  *)
(* base directory lies.                                                    *)
(***************************************************************************)
C7_SecondRunChangesNothing ==
    (Ended /\ run = "second") => files = firstRun

(***************************************************************************)
(* C7 amended: a second run with the same arguments leaves exactly the     *)
(* files, with the contents, that the first run left, provided no artifact *)
(* path of the run lies below the scanned target directory.                *)
(***************************************************************************)
C7_IdempotentOutsideTarget ==
    (Ended /\ run = "second" /\ \A c \in calls : ~IsPrefix(TopLoc, c.patch)) =>
        files = firstRun

C7_Witness ==
    /\ Ended
    /\ run = "second"
    /\ \A c \in calls : ~IsPrefix(TopLoc, c.patch)
    /\ \E c \in calls : IsFile(c.patch) /\ c.patch \in DOMAIN firstRun
    /\ \E c \in calls : ~IsFile(c.patch)

(***************************************************************************)
(* The example of C8: the working tree holds src/a.c and src/b.c, only     *)
(* a.c differs between the revisions, and the program is run once with     *)
(* (repo, "src", v1, v2, "out").                                           *)
(***************************************************************************)
ExampleRun ==
    /\ Ended
    /\ run = "first"
    /\ ArgsValid
    /\ target_dir = Rel(<<"src">>)
    /\ output_base_dir = Rel(<<"out">>)
    /\ revsOk
    /\ changed = { <<"src", "a.c">> }
    /\ DOMAIN status = { RepoRoot \o <<"src", "a.c">>, RepoRoot \o <<"src", "b.c">> }

InFlight == { f \in DOMAIN status : status[f] \notin Terminal \cup {"Discovered"} }

LifecycleStep(a, b) ==
    \/ a = b
    \/ a = "Discovered" /\ b = "Diffing"
    \/ a = "Diffing" /\ b \in {"Empty", "Failed", "NonEmpty"}
    \/ a \in {"Empty", "Failed"} /\ b = "Deleted"
    \/ a = "NonEmpty" /\ b = "Kept"

(***************************************************************************)
(* C9: every enumerated file moves Discovered -> Diffing -> Empty, Failed  *)
(* or NonEmpty -> Deleted or Kept and never leaves its terminal state, so  *)
(* it is processed once; at most one file is between Discovered and its    *)
(* terminal state at any time, and none while the walk picks the next      *)
(* file; a run that has ended has every enumerated file in a terminal      *)
(* state, and a run that has started its walk ends.                        *)
(***************************************************************************)
C9_Lifecycle ==
    /\ [](Cardinality(InFlight) <= 1 /\ (pc = "walk" => InFlight = {}))
    /\ [][\A f \in DOMAIN status :
            \/ status' = EmptyFn
            \/ f \in DOMAIN status' /\ LifecycleStep(status[f], status'[f])]_vars
    /\ []((Ended /\ exitCode = 0) => \A f \in DOMAIN status : status[f] \in Terminal)
    /\ (pc = "walk" ~> Ended)

C9_Witness ==
    /\ Ended
    /\ \E f, g, h \in DOMAIN status :
          /\ status[f] = "Kept"
          /\ status[g] = "Deleted"
          /\ h \notin {f, g}

(***************************************************************************)
(* C10: the `filename` argument of every call, which is the path given to  *)
(* the diff command after `--`, names the discovered file once git has     *)
(* changed into the repository root, whatever form repo_path has, as it    *)
(* does when it is the file's path relative to the repository root (read   *)
(* for the files discovered inside the repository).                        *)
(***************************************************************************)
C10_DiffScopedToFile ==
    \A s \in spawned :
        InRepo(CallOf(s.pathspec).file) =>
            GitResolve(s.repo, s.pathspec) = CallOf(s.pathspec).file

====
